---- MODULE Spec2Model ----
(***************************************************************************)
(* LiquidMem (liquidmem.c, bitarray.h): the bath, a fixed number of         *)
(* equally sized slots with a bit-array of the slots in use, and the pool,  *)
(* a growing array of baths; the creek, a buffer handed out front to back,  *)
(* and the river, a growing array of creeks.                                *)
(* Addresses are natural numbers, NULL is 0,                                *)
(* and a buffer obtained from malloc may lie anywhere in the heap that is   *)
(* free.  size_t arithmetic is taken modulo 2^SizeBits.                     *)
(***************************************************************************)
EXTENDS Integers, Sequences, FiniteSets, Bags, TLC

\* ------------------------------------------------------------------ bounds
\* Largest number of slots of a bath (membath.size, mempool.bathSize).
MaxSize == 3
\* Largest item size in bytes.
MaxItemSize == 2
\* The heap is the addresses 1..HeapTop.
HeapTop == 9
\* Width of size_t in bits.
SizeBits == 16
\* Largest number of releases of addresses the caller does not hold.
MaxStray == 2
\* Largest number of baths of a pool.
MaxBaths == 3
\* Largest number of mempool_alloc and mempool_release calls on a pool.
MaxCalls == 7
\* Largest number of slots of a bath that is reset.
MaxBigSize == 9
\* Largest size of a creek at initialisation (memcreek.size, memriver.creekSize).
MaxCreekSize == 3
\* Largest size asked of memcreek_alloc and memriver_alloc.
MaxRequest == 4
\* Largest number of creeks of a river.
MaxCreeks == 2
\* Largest number of successful allocations from a creek or a river between
\* two resets.
MaxGrants == 3

NULL == 0
CHAR_BIT == 8
BITARRAY_INTBITS == 32

SIZE_MOD == 2 ^ SizeBits
Heap == 1 .. HeapTop

Min(S) == CHOOSE x \in S : \A y \in S : x <= y

\* ---------------------------------------------------------------- bitarray
\* A bit-array of n words is the set of the indices of its bits that are 1;
\* bit i lives in word i \div BITARRAY_INTBITS at position i % BITARRAY_INTBITS.
bitArray_size(sz) == (sz + BITARRAY_INTBITS - 1) \div BITARRAY_INTBITS
bitArray_test(ar, bit) == bit \in ar
bitArray_set(ar, bit) == ar \cup {bit}
bitArray_clear(ar, bit) == ar \ {bit}
\* memset(ar, 0, bitArray_size(sz)): the first bitArray_size(sz) bytes of the
\* array are zeroed; byte j holds the bits CHAR_BIT*j .. CHAR_BIT*j + 7 (the
\* least significant byte of a word comes first).
bitArray_zeroe(ar, sz) == ar \ (0 .. (bitArray_size(sz) * CHAR_BIT - 1))

\* The slots of a bath, the address of a slot, the addresses of the buffer,
\* and the bytes of an item.
Slots(b) == 0 .. (b.size - 1)
SlotAddr(b, i) == b.data + i * b.itemSize
InBuffer(b, ptr) == b.data <= ptr /\ ptr < b.data + b.size * b.itemSize
Bytes(ptr, itemSize) == ptr .. (ptr + itemSize - 1)

\* -------------------------------------------------------------------- bath
\* bath: the membath_s; held: the pointers the caller got from membath_alloc
\* and has not released; call: the last call, its argument and result; pre:
\* the bath before that call; stray: the number of stray releases so far.
VARIABLES bath, held, call, pre, stray
\* fresh: membath_reset was called and no membath_release since.
VARIABLES fresh
\* pool: the mempool_s; items: the caller's data[], the pointers it got from
\* mempool_alloc and has not released, each with the value it wrote there;
\* mem: the bytes of the heap; nalloc, nrel: the number of mempool_alloc and
\* mempool_release calls so far.
VARIABLES pool, items, mem, nalloc, nrel

\* creek: a memcreek_s; river: a memriver_s, creeks being its array
\* (creeks[i] in the code is creeks[i + 1] here).  grants: the successful
\* allocations since initialisation or the last reset, in order: the pointer
\* returned, the size asked, the index of the creek that served it and whether
\* the size exceeded creekSize.
VARIABLES creek, river, grants
\* oom: the allocations that failed during the last call.
VARIABLES oom

riverVars == <<creek, river, grants>>
bathVars == <<bath, held, fresh>>
poolVars == <<pool, items, mem, nalloc, nrel>>
vars == <<bath, held, call, pre, stray, fresh, pool, items, mem, nalloc, nrel,
          creek, river, grants, oom>>

\* malloc(n): any address at which n bytes (at least one) fit in the heap.
malloc(n) == {a \in Heap : a + n - 1 <= HeapTop}

\* membath_init, both allocations succeeding: calloc gives a zeroed bit-array.
membath_init(size, itemSize, data) ==
    [size |-> size, itemSize |-> itemSize, length |-> 0, firstFree |-> 0,
     useMap |-> {}, data |-> data]

\* membath_alloc with the full test off by one (length > size).
membath_alloc_offByOne(b) ==
    IF b.length > b.size
    THEN [bath |-> b, ret |-> NULL]
    ELSE [bath |-> [b EXCEPT !.useMap = bitArray_set(@, b.firstFree),
                             !.length = (b.length + 1) % SIZE_MOD],
          ret |-> b.data + b.firstFree * b.itemSize]

\* membath_alloc: the bath after the call and the pointer returned.
membath_alloc(b) ==
    IF b.length >= b.size
    THEN [bath |-> b, ret |-> NULL]
    ELSE LET item == b.firstFree
             useMap == bitArray_set(b.useMap, item)
             free == {i \in item .. (b.size - 1) : ~bitArray_test(useMap, i)}
             firstFree == IF free = {} THEN b.firstFree ELSE Min(free)
         IN  [bath |-> [b EXCEPT !.useMap = useMap,
                                 !.firstFree = firstFree,
                                 !.length = (b.length + 1) % SIZE_MOD],
              ret |-> b.data + item * b.itemSize]

\* membath_release refusing an address that is not the start of a slot.
membath_release_aligned(b, ptr) ==
    LET itemOffset == ptr - b.data
        item == itemOffset \div b.itemSize
    IN  IF ptr < b.data \/ ptr > b.data + b.size * b.itemSize
           \/ itemOffset % b.itemSize # 0
        THEN [bath |-> b, ok |-> FALSE]
        ELSE [bath |-> [b EXCEPT !.firstFree = IF item < @ THEN item ELSE @,
                                 !.useMap = bitArray_clear(@, item),
                                 !.length = (b.length - 1) % SIZE_MOD],
              ok |-> TRUE]

\* membath_release: the bath after the call, and whether bath (TRUE) or NULL
\* (FALSE) is returned.
membath_release(b, ptr) ==
    LET end == b.data + b.size * b.itemSize
        itemOffset == ptr - b.data
        item == itemOffset \div b.itemSize
    IN  IF ptr < b.data \/ ptr > end
        THEN [bath |-> b, ok |-> FALSE]
        ELSE IF itemOffset < 0 \/ itemOffset > b.size * b.itemSize
        THEN [bath |-> b, ok |-> FALSE]
        ELSE [bath |-> [b EXCEPT !.firstFree = IF item < @ THEN item ELSE @,
                                 !.useMap = bitArray_clear(@, item),
                                 !.length = (b.length - 1) % SIZE_MOD],
              ok |-> TRUE]

\* membath_reset: the bath after the call.
membath_reset(b) ==
    [b EXCEPT !.length = 0, !.firstFree = 0,
              !.useMap = bitArray_zeroe(@, b.size)]

\* No creek and no river have been made.
NoRiver ==
    /\ creek = [size |-> 0, length |-> 0, data |-> NULL]
    /\ river = [length |-> 0, creekSize |-> 0, creeks |-> << >>]
    /\ grants = << >>
    /\ oom = {}

NoCall == [op |-> "init", ptr |-> NULL, ret |-> NULL, ok |-> TRUE]

\* membath_make(size, itemSize) with size up to maxSize
BathInitUpTo(maxSize) ==
    /\ \E size \in 1 .. maxSize, itemSize \in 1 .. MaxItemSize :
        \E data \in malloc(size * itemSize) :
            /\ bath = membath_init(size, itemSize, data)
            /\ pre = bath
    /\ held = EmptyBag
    /\ call = NoCall
    /\ stray = 0
    /\ fresh = FALSE
    /\ pool = [length |-> 0, bathSize |-> 0, itemSize |-> 0, baths |-> << >>]
    /\ items = {}
    /\ mem = [a \in Heap |-> 0]
    /\ nalloc = 0
    /\ nrel = 0
    /\ NoRiver

BathInit == BathInitUpTo(MaxSize)

\* The caller allocates an item and keeps the pointer.
Alloc ==
    LET r == membath_alloc(bath)
    IN  /\ bath' = r.bath
        /\ pre' = bath
        /\ call' = [op |-> "alloc", ptr |-> NULL, ret |-> r.ret, ok |-> r.ret # NULL]
        /\ held' = IF r.ret = NULL THEN held ELSE held (+) SetToBag({r.ret})
        /\ UNCHANGED <<riverVars, oom, stray, fresh, poolVars>>

\* The caller releases an item it holds.
Release ==
    \E ptr \in BagToSet(held) :
        LET r == membath_release(bath, ptr)
        IN  /\ bath' = r.bath
            /\ pre' = bath
            /\ call' = [op |-> "release", ptr |-> ptr, ret |-> NULL, ok |-> r.ok]
            /\ held' = held (-) SetToBag({ptr})
            /\ fresh' = FALSE
            /\ UNCHANGED <<riverVars, oom, stray, poolVars>>

BathNext == Alloc \/ Release

SpecBath == BathInit /\ [][BathNext]_vars

\* The caller resets the bath; the pointers it held are no longer its own.
Reset ==
    /\ bath' = membath_reset(bath)
    /\ pre' = bath
    /\ call' = [op |-> "reset", ptr |-> NULL, ret |-> NULL, ok |-> TRUE]
    /\ held' = EmptyBag
    /\ fresh' = TRUE
    /\ UNCHANGED <<riverVars, oom, stray, poolVars>>

BathResetInit == BathInitUpTo(MaxBigSize)

BathResetNext == Alloc \/ Release \/ Reset

SpecBathReset == BathResetInit /\ [][BathResetNext]_vars

\* The caller passes membath_release an address it does not hold: NULL, an
\* address outside the buffer, inside a slot, or of a slot that is free.
ReleaseStray ==
    /\ stray < MaxStray
    /\ \E ptr \in (0 .. (HeapTop + 1)) \ BagToSet(held) :
        LET r == membath_release(bath, ptr)
        IN  /\ bath' = r.bath
            /\ pre' = bath
            /\ call' = [op |-> "release", ptr |-> ptr, ret |-> NULL, ok |-> r.ok]
            /\ stray' = stray + 1
            /\ UNCHANGED <<riverVars, oom, held, fresh, poolVars>>

BathAnyNext == Alloc \/ Release \/ ReleaseStray

SpecBathAny == BathInit /\ [][BathAnyNext]_vars


\* -------------------------------------------------------------------- pool
\* The bytes of the buffer of bath b, and the heap that no bath of p owns.
Buffer(b) == b.data .. (b.data + b.size * b.itemSize - 1)
FreeHeap(p) == Heap \ UNION {Buffer(p.baths[i]) : i \in 1 .. p.length}

\* malloc(n) while the baths of p are live: any free place where n bytes fit.
mallocBeside(p, n) == {a \in Heap : (a .. (a + n - 1)) \subseteq FreeHeap(p)}

\* mempool_init, the allocations succeeding: one bath, whose buffer is at data.
mempool_init(bathSize, itemSize, data) ==
    [length |-> 1, bathSize |-> bathSize, itemSize |-> itemSize,
     baths |-> <<membath_init(bathSize, itemSize, data)>>]

\* mempool_alloc that takes a slot of the first bath that is not full.
mempool_alloc_reuse(p, data) ==
    LET open == {i \in 1 .. p.length : p.baths[i].length < p.baths[i].size}
    IN  IF open # {}
        THEN [pool |-> [p EXCEPT !.baths[Min(open)] = membath_alloc(@).bath],
              ret |-> membath_alloc(p.baths[Min(open)]).ret]
        ELSE LET r2 == membath_alloc(membath_init(p.bathSize, p.itemSize, data))
             IN  [pool |-> [p EXCEPT !.length = p.length + 1,
                                     !.baths = Append(@, r2.bath)],
                  ret |-> r2.ret]

\* mempool_alloc that appends the next bath as soon as the last one is full.
mempool_alloc_eager(p, data) ==
    LET r == membath_alloc(p.baths[p.length])
        grown == [p EXCEPT !.baths[p.length] = r.bath]
    IN  IF r.bath.length < r.bath.size
        THEN [pool |-> grown, ret |-> r.ret]
        ELSE [pool |-> [grown EXCEPT
                          !.length = p.length + 1,
                          !.baths = Append(@, membath_init(p.bathSize, p.itemSize, data))],
              ret |-> r.ret]

\* mempool_alloc asking the first bath (pool->baths) instead of the last.
mempool_alloc_first(p, data) ==
    LET r == membath_alloc(p.baths[1])
    IN  IF r.ret # NULL
        THEN [pool |-> [p EXCEPT !.baths[1] = r.bath], ret |-> r.ret]
        ELSE LET r2 == membath_alloc(membath_init(p.bathSize, p.itemSize, data))
             IN  [pool |-> [p EXCEPT !.length = p.length + 1,
                                     !.baths = Append(@, r2.bath)],
                  ret |-> r2.ret]

\* mempool_alloc, the allocations succeeding and malloc placing the buffer of
\* a bath it appends at data: the pool after the call and the pointer returned.
mempool_alloc(p, data) ==
    LET r == membath_alloc(p.baths[p.length])
    IN  IF r.ret # NULL
        THEN [pool |-> [p EXCEPT !.baths[p.length] = r.bath], ret |-> r.ret]
        ELSE LET len == (p.length + 1) % SIZE_MOD
                 r2 == membath_alloc(membath_init(p.bathSize, p.itemSize, data))
             IN  [pool |-> [p EXCEPT !.length = len,
                                     !.baths = Append(@, r2.bath)],
                  ret |-> r2.ret]

\* mempool_release: the baths are tried first to last, and the first whose
\* membath_release returns it ends the call.
mempool_release(p, ptr) ==
    LET claim == {i \in 1 .. p.length : membath_release(p.baths[i], ptr).ok}
    IN  IF ptr = NULL \/ claim = {}
        THEN [pool |-> p, ok |-> FALSE]
        ELSE [pool |-> [p EXCEPT !.baths[Min(claim)] =
                                     membath_release(@, ptr).bath],
              ok |-> TRUE]

\* mempool_reset: every bath after the first is cleared, the array shrinks to
\* one bath and that bath is reset.
mempool_reset(p) ==
    [p EXCEPT !.length = 1, !.baths = <<membath_reset(p.baths[1])>>]

\* mempool_make(bathSize, itemSize) with bathSize in sizes
PoolInitIn(sizes) ==
    /\ \E bathSize \in sizes, itemSize \in 1 .. MaxItemSize :
        \E data \in malloc(bathSize * itemSize) :
            /\ pool = mempool_init(bathSize, itemSize, data)
            /\ pre = pool
    /\ items = {}
    /\ mem = [a \in Heap |-> 0]
    /\ nalloc = 0
    /\ nrel = 0
    /\ call = NoCall
    /\ stray = 0
    /\ bath = membath_init(0, 0, NULL)
    /\ held = EmptyBag
    /\ fresh = FALSE
    /\ NoRiver

PoolInit == PoolInitIn(1 .. MaxSize)

\* Whether the next mempool_alloc of p has to append a bath.
LastFull(p) == p.baths[p.length].length >= p.baths[p.length].size

\* data[i] = mempool_alloc(pool); *data[i] = i;  (benchMempoolAlloc): the
\* caller stores the number of the call in the item.  At most limit calls are
\* made on the pool.
PoolAllocWithin(limit) ==
    /\ pool.length > 0
    /\ nalloc + nrel < limit
    /\ LastFull(pool) => pool.length < MaxBaths
    /\ \E data \in IF LastFull(pool)
                   THEN mallocBeside(pool, pool.bathSize * pool.itemSize)
                   ELSE {NULL} :
        LET r == mempool_alloc(pool, data)
            val == nalloc + 1
        IN  /\ pool' = r.pool
            /\ pre' = pool
            /\ call' = [op |-> "alloc", ptr |-> NULL, ret |-> r.ret, ok |-> r.ret # NULL]
            /\ items' = IF r.ret = NULL THEN items
                        ELSE items \cup {[ptr |-> r.ret, val |-> val]}
            /\ mem' = IF r.ret = NULL THEN mem
                      ELSE [a \in Heap |->
                              IF a \in Bytes(r.ret, pool.itemSize) THEN val ELSE mem[a]]
            /\ nalloc' = nalloc + 1
            /\ UNCHANGED <<riverVars, oom, nrel, stray, bathVars>>

PoolAlloc == PoolAllocWithin(MaxCalls)

\* mempool_release(pool, data[i]); data[i] = NULL;  (benchMempoolRelease)
PoolReleaseWithin(limit) ==
    /\ nalloc + nrel < limit
    /\ \E it \in items :
        LET r == mempool_release(pool, it.ptr)
        IN  /\ pool' = r.pool
            /\ pre' = pool
            /\ call' = [op |-> "release", ptr |-> it.ptr, ret |-> NULL, ok |-> r.ok]
            /\ items' = items \ {it}
            /\ nrel' = nrel + 1
            /\ UNCHANGED <<riverVars, oom, mem, nalloc, stray, bathVars>>

PoolRelease == PoolReleaseWithin(MaxCalls)

HeldPtrs == {it.ptr : it \in items}

\* The caller passes mempool_release an address it does not hold.
PoolReleaseStray ==
    /\ nalloc + nrel < MaxCalls
    /\ stray < MaxStray
    /\ \E ptr \in (0 .. (HeapTop + 1)) \ HeldPtrs :
        LET r == mempool_release(pool, ptr)
        IN  /\ pool' = r.pool
            /\ pre' = pool
            /\ call' = [op |-> "release", ptr |-> ptr, ret |-> NULL, ok |-> r.ok]
            /\ nrel' = nrel + 1
            /\ stray' = stray + 1
            /\ UNCHANGED <<riverVars, oom, items, mem, nalloc, bathVars>>

PoolNext == PoolAlloc \/ PoolRelease

SpecPool == PoolInit /\ [][PoolNext]_vars

PoolAnyNext == PoolAlloc \/ PoolRelease \/ PoolReleaseStray

SpecPoolAny == PoolInit /\ [][PoolAnyNext]_vars

\* The caller resets the pool; the pointers it held are no longer its own.
PoolReset ==
    /\ pool' = mempool_reset(pool)
    /\ pre' = pool
    /\ call' = [op |-> "reset", ptr |-> NULL, ret |-> NULL, ok |-> TRUE]
    /\ items' = {}
    /\ UNCHANGED <<riverVars, oom, mem, nalloc, nrel, stray, bathVars>>

PoolResetInit == PoolInitIn(1 .. MaxBigSize)

\* The caller makes enough calls to fill the first bath and have one more
\* appended.
PoolFill == PoolAllocWithin(pool.bathSize + 1)

PoolDrain == PoolReleaseWithin(pool.bathSize + 1)

PoolResetNext == PoolFill \/ PoolDrain \/ PoolReset

SpecPoolReset == PoolResetInit /\ [][PoolResetNext]_vars

\* ------------------------------------------------------------------- creek
Max(S) == CHOOSE x \in S : \A y \in S : x >= y

\* No bath and no pool have been made.
NoPool ==
    /\ bath = membath_init(0, 0, NULL)
    /\ held = EmptyBag
    /\ fresh = FALSE
    /\ stray = 0
    /\ pool = [length |-> 0, bathSize |-> 0, itemSize |-> 0, baths |-> << >>]
    /\ items = {}
    /\ mem = [a \in Heap |-> 0]
    /\ nalloc = 0
    /\ nrel = 0

\* memcreek_init: the creek after the call; data is what malloc(size) returned.
memcreek_init(size, data) == [size |-> size, length |-> 0, data |-> data]

\* memcreek_reset
memcreek_reset(c) == [c EXCEPT !.length = 0]

\* memcreek_alloc that does not look at the room left.
memcreek_alloc_unchecked(c, sz) ==
    [creek |-> [c EXCEPT !.length = (@ + sz) % SIZE_MOD],
     ret |-> c.data + c.length]

\* memcreek_alloc that refuses a request that fills the creek exactly.
memcreek_alloc_strict(c, sz) ==
    IF (c.size - c.length) % SIZE_MOD <= sz
    THEN [creek |-> c, ret |-> NULL]
    ELSE [creek |-> [c EXCEPT !.length = (@ + sz) % SIZE_MOD],
          ret |-> c.data + c.length]

\* memcreek_alloc that does not advance length.
memcreek_alloc_still(c, sz) ==
    IF (c.size - c.length) % SIZE_MOD < sz
    THEN [creek |-> c, ret |-> NULL]
    ELSE [creek |-> c, ret |-> c.data + c.length]

\* memcreek_alloc: the creek after the call and the pointer returned.
memcreek_alloc(c, sz) ==
    IF (c.size - c.length) % SIZE_MOD < sz
    THEN [creek |-> c, ret |-> NULL]
    ELSE [creek |-> [c EXCEPT !.length = (@ + sz) % SIZE_MOD],
          ret |-> c.data + c.length]

\* memcreek_make(size); malloc(0) returns a pointer to no bytes.
CreekInit ==
    /\ \E size \in 0 .. MaxCreekSize :
        \E data \in malloc(size) :
            /\ creek = memcreek_init(size, data)
            /\ pre = creek
    /\ river = [length |-> 0, creekSize |-> 0, creeks |-> << >>]
    /\ grants = << >>
    /\ oom = {}
    /\ call = NoCall
    /\ NoPool

\* The caller asks the creek for sz bytes, up to MaxRequest or as many as a
\* size_t can say, and keeps what it gets.
CreekAlloc ==
    /\ creek.data # NULL
    /\ Len(grants) < MaxGrants
    /\ \E sz \in (0 .. MaxRequest) \cup {SIZE_MOD - 1} :
        LET r == memcreek_alloc(creek, sz)
        IN  /\ creek' = r.creek
            /\ pre' = creek
            /\ call' = [op |-> "alloc", ptr |-> sz, ret |-> r.ret, ok |-> r.ret # NULL]
            /\ grants' = IF r.ret = NULL THEN grants
                         ELSE Append(grants, [ptr |-> r.ret, sz |-> sz,
                                              creek |-> 1, over |-> FALSE])
            /\ UNCHANGED <<river, oom, stray, bathVars, poolVars>>

\* The caller resets the creek: what it was given is no longer its own.
CreekReset ==
    /\ creek.data # NULL
    /\ creek' = memcreek_reset(creek)
    /\ pre' = creek
    /\ call' = [op |-> "reset", ptr |-> NULL, ret |-> NULL, ok |-> TRUE]
    /\ grants' = << >>
    /\ UNCHANGED <<river, oom, stray, bathVars, poolVars>>

CreekNext == CreekAlloc \/ CreekReset

SpecCreek == CreekInit /\ [][CreekNext]_vars

\* ------------------------------------------------------------------- river
\* The bytes of the creeks of a river, and the addresses at which malloc(n)
\* may place a further buffer.
CreekBytes(r) ==
    UNION {r.creeks[i].data .. (r.creeks[i].data + r.creeks[i].size - 1) :
             i \in 1 .. Len(r.creeks)}

riverMalloc(r, n) == {a \in malloc(n) : (a .. (a + n - 1)) \cap CreekBytes(r) = {}}

\* memriver_init: the river after the call; data is what the malloc of
\* memcreek_init returned.
memriver_init(creekSize, data) ==
    [length |-> 1, creekSize |-> creekSize,
     creeks |-> <<memcreek_init(creekSize, data)>>]

\* memriver_reset: every creek after the first is cleared, the array shrinks
\* to one creek and that creek is reset.
memriver_reset(r) ==
    [r EXCEPT !.length = 1, !.creeks = <<memcreek_reset(r.creeks[1])>>]

\* addCreek making the new creek one byte larger than asked.
addCreek_roomy(r, size, array, data) ==
    [river |-> [r EXCEPT !.length = r.length + 1,
                         !.creeks = Append(@, memcreek_init(size + 1, data))],
     crk |-> r.length + 1]

\* addCreek: the river after the call and the index of the new creek, NULL
\* when realloc failed.  array: realloc succeeded; data: what the malloc of
\* memcreek_init returned.
addCreek(r, size, array, data) ==
    LET len == (r.length + 1) % SIZE_MOD
    IN  IF ~array
        THEN [river |-> [r EXCEPT !.length = len], crk |-> NULL]
        ELSE [river |-> [r EXCEPT !.length = len,
                                  !.creeks = Append(@, memcreek_init(size, data))],
              crk |-> len]

\* return memcreek_alloc(crk, size) after addCreek, NULL when addCreek failed.
AllocFromNew(g, size) ==
    IF g.crk = NULL
    THEN [river |-> g.river, ret |-> NULL, creek |-> NULL]
    ELSE LET a == memcreek_alloc(g.river.creeks[g.crk], size)
         IN  [river |-> [g.river EXCEPT !.creeks[g.crk] = a.creek],
              ret |-> a.ret, creek |-> g.crk]

\* memriver_alloc that goes over the creeks first to last.
memriver_alloc_forward(r, size, array, data) ==
    IF size > r.creekSize
    THEN AllocFromNew(addCreek(r, size, array, data), size)
    ELSE LET fit == {i \in 1 .. r.length : memcreek_alloc(r.creeks[i], size).ret # NULL}
         IN  IF fit # {}
             THEN [river |-> [r EXCEPT !.creeks[Min(fit)] =
                                         memcreek_alloc(@, size).creek],
                   ret |-> memcreek_alloc(r.creeks[Min(fit)], size).ret,
                   creek |-> Min(fit)]
             ELSE AllocFromNew(addCreek(r, r.creekSize, array, data), size)

\* memriver_alloc that sizes the creek of an oversized request creekSize.
memriver_alloc_plain(r, size, array, data) ==
    LET fit == {i \in 1 .. r.length : memcreek_alloc(r.creeks[i], size).ret # NULL}
    IN  IF size <= r.creekSize /\ fit # {}
        THEN [river |-> [r EXCEPT !.creeks[Max(fit)] = memcreek_alloc(@, size).creek],
              ret |-> memcreek_alloc(r.creeks[Max(fit)], size).ret,
              creek |-> Max(fit)]
        ELSE AllocFromNew(addCreek(r, r.creekSize, array, data), size)

\* memriver_alloc: the river after the call, the pointer returned and the
\* index of the creek that served it.  An oversized request gets a creek of
\* its own; any other goes to the last creek whose memcreek_alloc returns a
\* pointer, every creek tried on the way having been through memcreek_alloc,
\* and to a new creek when there is none.
memriver_alloc(r, size, array, data) ==
    IF size > r.creekSize
    THEN AllocFromNew(addCreek(r, size, array, data), size)
    ELSE LET fit == {i \in 1 .. r.length : memcreek_alloc(r.creeks[i], size).ret # NULL}
             hit == IF fit = {} THEN NULL ELSE Max(fit)
             tried == [i \in 1 .. r.length |->
                         IF i >= hit /\ i >= 1
                         THEN memcreek_alloc(r.creeks[i], size).creek
                         ELSE r.creeks[i]]
             scanned == [r EXCEPT !.creeks = tried]
         IN  IF hit # NULL
             THEN [river |-> scanned,
                   ret |-> memcreek_alloc(r.creeks[hit], size).ret,
                   creek |-> hit]
             ELSE AllocFromNew(addCreek(scanned, r.creekSize, array, data), size)

\* memriver_make(creekSize)
RiverInit ==
    /\ \E creekSize \in 0 .. MaxCreekSize :
        \E data \in malloc(creekSize) :
            /\ river = memriver_init(creekSize, data)
            /\ pre = river
    /\ creek = [size |-> 0, length |-> 0, data |-> NULL]
    /\ grants = << >>
    /\ oom = {}
    /\ call = NoCall
    /\ NoPool

\* Whether memriver_alloc(r, size) has to add a creek.
Grows(r, size) ==
    \/ size > r.creekSize
    \/ \A i \in 1 .. r.length : memcreek_alloc(r.creeks[i], size).ret = NULL

\* data[i] = memriver_alloc(riv, sizeof *data[i])  (benchMemriverAlloc), with
\* any size: the caller keeps what it gets.
RiverAlloc ==
    /\ river.length > 0
    /\ Len(grants) < MaxGrants
    /\ \E size \in 0 .. MaxRequest :
        /\ Grows(river, size) => river.length < MaxCreeks
        /\ \E data \in IF ~Grows(river, size) THEN {NULL}
                        ELSE IF size > river.creekSize THEN riverMalloc(river, size)
                        ELSE riverMalloc(river, river.creekSize) :
            LET r == memriver_alloc(river, size, TRUE, data)
            IN  /\ river' = r.river
                /\ pre' = river
                /\ call' = [op |-> "alloc", ptr |-> size, ret |-> r.ret,
                            ok |-> r.ret # NULL]
                /\ grants' = IF r.ret = NULL THEN grants
                             ELSE Append(grants, [ptr |-> r.ret, sz |-> size,
                                                  creek |-> r.creek,
                                                  over |-> size > river.creekSize])
                /\ UNCHANGED <<creek, oom, stray, bathVars, poolVars>>

\* The caller resets the river: what it was given is no longer its own.
RiverReset ==
    /\ river.length > 0
    /\ river' = memriver_reset(river)
    /\ pre' = river
    /\ call' = [op |-> "reset", ptr |-> NULL, ret |-> NULL, ok |-> TRUE]
    /\ grants' = << >>
    /\ UNCHANGED <<creek, oom, stray, bathVars, poolVars>>

RiverNext == RiverAlloc \/ RiverReset

SpecRiver == RiverInit /\ [][RiverNext]_vars

\* --------------------------------------------------------- creek or river
\* The program makes a creek or a river, allocates from it and resets it.
ArenaInit == CreekInit \/ RiverInit

ArenaNext == CreekAlloc \/ CreekReset \/ RiverAlloc \/ RiverReset

SpecArena == ArenaInit /\ [][ArenaNext]_vars

\* ---------------------------------------------------------- pool or river
\* The program makes a pool of any bath size, 0 included (poolz = n / div in
\* benchMempoolAlloc), or a river, and allocates from it.
GrowInit == PoolInitIn(0 .. MaxSize) \/ RiverInit

GrowNext == PoolAlloc \/ PoolRelease \/ RiverAlloc \/ RiverReset

SpecGrow == GrowInit /\ [][GrowNext]_vars

\* ------------------------------------------------------ failing allocations
\* The allocations a call performs are named by what they are for: "self" the
\* struct of a make function, "baths" and "creeks" the array of members,
\* "useMap" the bit-array and "data" the buffer of a bath or a creek.  fail is
\* the set of the allocations that return NULL; no call goes on to another
\* allocation after one has failed, so at most one fails in a call.
Failures(sites) == {{}} \cup {{s} : s \in sites}

\* Whether membath_init returns bath (and not NULL).
membath_init_ok(fail) == "useMap" \notin fail /\ "data" \notin fail

\* Whether mempool_init returns pool.
mempool_init_ok(fail) == "baths" \notin fail /\ membath_init_ok(fail)

\* Whether memcreek_init returns creek.
memcreek_init_ok(fail) == "data" \notin fail

\* Whether memriver_init returns riv: the result of its memcreek_init is
\* not looked at.
memriver_init_ok(fail) == "creeks" \notin fail

\* Nothing has been made yet.
MakeInit ==
    /\ NoPool
    /\ NoRiver
    /\ call = NoCall
    /\ pre = NULL

\* What malloc returns for the buffer: NULL when it is the one that fails.
mallocOrFail(fail, n) == IF "data" \in fail THEN {NULL} ELSE malloc(n)

\* membath_make(size, itemSize)
BathMake ==
    /\ call.op = "init"
    /\ \E size \in 1 .. MaxSize, itemSize \in 1 .. MaxItemSize,
          fail \in Failures({"self", "useMap", "data"}) :
        \E data \in mallocOrFail(fail, size * itemSize) :
            LET ok == "self" \notin fail /\ membath_init_ok(fail)
            IN  /\ bath' = IF ok THEN membath_init(size, itemSize, data) ELSE bath
                /\ call' = [op |-> "membath_make", ptr |-> NULL,
                            ret |-> IF ok THEN data ELSE NULL, ok |-> ok]
                /\ oom' = fail
                /\ UNCHANGED <<pre, held, fresh, stray, poolVars, riverVars>>

\* mempool_make(bathSize, itemSize)
PoolMake ==
    /\ call.op = "init"
    /\ \E bathSize \in 1 .. MaxSize, itemSize \in 1 .. MaxItemSize,
          fail \in Failures({"self", "baths", "useMap", "data"}) :
        \E data \in mallocOrFail(fail, bathSize * itemSize) :
            LET ok == "self" \notin fail /\ mempool_init_ok(fail)
            IN  /\ pool' = IF ok THEN mempool_init(bathSize, itemSize, data) ELSE pool
                /\ call' = [op |-> "mempool_make", ptr |-> NULL,
                            ret |-> IF ok THEN data ELSE NULL, ok |-> ok]
                /\ oom' = fail
                /\ UNCHANGED <<pre, items, mem, nalloc, nrel, stray, bathVars, riverVars>>

\* memcreek_make(size)
CreekMake ==
    /\ call.op = "init"
    /\ \E size \in 0 .. MaxCreekSize, fail \in Failures({"self", "data"}) :
        \E data \in mallocOrFail(fail, size) :
            LET ok == "self" \notin fail /\ memcreek_init_ok(fail)
            IN  /\ creek' = IF ok THEN memcreek_init(size, data) ELSE creek
                /\ call' = [op |-> "memcreek_make", ptr |-> NULL,
                            ret |-> IF ok THEN data ELSE NULL, ok |-> ok]
                /\ oom' = fail
                /\ UNCHANGED <<pre, river, grants, stray, bathVars, poolVars>>

\* memriver_make(creekSize)
RiverMake ==
    /\ call.op = "init"
    /\ \E creekSize \in 0 .. MaxCreekSize, fail \in Failures({"self", "creeks", "data"}) :
        \E data \in mallocOrFail(fail, creekSize) :
            LET ok == "self" \notin fail /\ memriver_init_ok(fail)
            IN  /\ river' = IF ok THEN memriver_init(creekSize, data) ELSE river
                /\ call' = [op |-> "memriver_make", ptr |-> NULL,
                            ret |-> IF ok THEN data ELSE NULL, ok |-> ok]
                /\ oom' = fail
                /\ UNCHANGED <<pre, creek, grants, stray, bathVars, poolVars>>

MakeNext == BathMake \/ PoolMake \/ CreekMake \/ RiverMake

SpecMake == MakeInit /\ [][MakeNext]_vars

\* mempool_alloc where the realloc of the array of baths may fail (array is
\* whether it succeeded) and data, what the malloc of membath_init returned,
\* may be NULL: length has been incremented before realloc is tested, and the
\* result of membath_init is not looked at.
mempool_alloc_oom(p, array, data) ==
    IF membath_alloc(p.baths[p.length]).ret = NULL /\ ~array
    THEN [pool |-> [p EXCEPT !.length = (p.length + 1) % SIZE_MOD], ret |-> NULL]
    ELSE mempool_alloc(p, data)

\* The program makes a pool or a river.
OomInit == PoolInit \/ RiverInit

\* mempool_alloc with the allocations of a new bath free to fail.  No call
\* is made after one has failed.
PoolAllocOom ==
    /\ pool.length > 0
    /\ oom = {}
    /\ nalloc + nrel < MaxCalls
    /\ LastFull(pool) => pool.length < MaxBaths
    /\ \E fail \in IF LastFull(pool) THEN Failures({"baths", "data"}) ELSE {{}} :
        \E data \in IF ~LastFull(pool) \/ "baths" \in fail THEN {NULL}
                    ELSE IF "data" \in fail THEN {NULL}
                    ELSE mallocBeside(pool, pool.bathSize * pool.itemSize) :
            LET r == mempool_alloc_oom(pool, "baths" \notin fail, data)
                val == nalloc + 1
            IN  /\ pool' = r.pool
                /\ pre' = pool
                /\ call' = [op |-> "alloc", ptr |-> NULL, ret |-> r.ret,
                            ok |-> r.ret # NULL]
                /\ oom' = fail
                /\ items' = IF r.ret = NULL THEN items
                            ELSE items \cup {[ptr |-> r.ret, val |-> val]}
                /\ mem' = IF r.ret = NULL THEN mem
                          ELSE [a \in Heap |->
                                  IF a \in Bytes(r.ret, pool.itemSize) THEN val ELSE mem[a]]
                /\ nalloc' = nalloc + 1
                /\ UNCHANGED <<nrel, stray, bathVars, riverVars>>

\* memriver_alloc with the allocations of a new creek free to fail.  No call
\* is made after one has failed.
RiverAllocOom ==
    /\ river.length > 0
    /\ oom = {}
    /\ Len(grants) < MaxGrants
    /\ \E size \in 0 .. MaxRequest :
        /\ Grows(river, size) => river.length < MaxCreeks
        /\ \E fail \in IF Grows(river, size) THEN Failures({"creeks", "data"}) ELSE {{}} :
            \E data \in IF ~Grows(river, size) \/ "creeks" \in fail THEN {NULL}
                        ELSE IF "data" \in fail THEN {NULL}
                        ELSE IF size > river.creekSize THEN riverMalloc(river, size)
                        ELSE riverMalloc(river, river.creekSize) :
                LET r == memriver_alloc(river, size, "creeks" \notin fail, data)
                IN  /\ river' = r.river
                    /\ pre' = river
                    /\ call' = [op |-> "alloc", ptr |-> size, ret |-> r.ret,
                                ok |-> r.ret # NULL]
                    /\ oom' = fail
                    /\ grants' = IF r.ret = NULL THEN grants
                                 ELSE Append(grants, [ptr |-> r.ret, sz |-> size,
                                                      creek |-> r.creek,
                                                      over |-> size > river.creekSize])
                    /\ UNCHANGED <<creek, stray, bathVars, poolVars>>

OomNext == PoolAllocOom \/ RiverAllocOom

SpecOom == OomInit /\ [][OomNext]_vars

\* ---------------------------------------------------------- bath: claims

\* C1: the items the caller holds are pairwise disjoint: no address is held
\* twice and no two held items share a byte, so membath_alloc never returns
\* a slot that is still allocated.
C1_NoOverlap ==
    /\ \A p \in BagToSet(held) : CopiesIn(p, held) = 1
    /\ \A p, q \in BagToSet(held) :
           p # q => Bytes(p, bath.itemSize) \cap Bytes(q, bath.itemSize) = {}

\* C2: length equals the number of bits set in useMap among 0..size-1.
C2_LengthIsPopcount ==
    bath.length = Cardinality({i \in Slots(bath) : bitArray_test(bath.useMap, i)})

\* C4: membath_alloc returns NULL exactly when length = size at the call, and
\* otherwise the address of a slot inside the buffer.
C4_AllocNullIffFull ==
    call.op = "alloc" =>
        /\ (call.ret = NULL) <=> (pre.length = pre.size)
        /\ call.ret # NULL => \E i \in Slots(pre) : call.ret = SlotAddr(pre, i)

C4_Witness ==
    /\ call.op = "alloc" /\ call.ret = NULL
    /\ pre.length = pre.size
    /\ held # EmptyBag

\* C5: when the bath is full and a held slot is released, the next
\* membath_alloc returns that same slot.
C5_ReuseReleased ==
    [][(call.op = "release" /\ call.ok /\ pre.length = pre.size
            /\ call'.op = "alloc")
         => call'.ret = call.ptr]_vars

\* C8: membath_release fails and changes nothing for every address outside
\* [data, data + size*itemSize), the one-past-the-end address included.
C8_OutOfRangeRejected ==
    (call.op = "release" /\ ~InBuffer(pre, call.ptr)) =>
        (~call.ok /\ bath = pre)

\* C9 as claimed: membath_release fails and changes nothing for an address
\* inside the buffer whose offset is no multiple of itemSize.
Unaligned(b, ptr) == InBuffer(b, ptr) /\ (ptr - b.data) % b.itemSize # 0

C9_UnalignedRejected ==
    (call.op = "release" /\ Unaligned(pre, call.ptr)) =>
        (~call.ok /\ bath = pre)

\* C9 amended: for such an address membath_release returns bath and releases
\* the slot the address lies in: its bit is cleared, length goes down by one
\* (modulo 2^SizeBits) and firstFree is lowered to it when it is lower.
C9_UnalignedReleasesSlot ==
    (call.op = "release" /\ Unaligned(pre, call.ptr)) =>
        \E i \in Slots(pre) :
            /\ call.ptr \in Bytes(SlotAddr(pre, i), pre.itemSize)
            /\ call.ok
            /\ bath.useMap = pre.useMap \ {i}
            /\ bath.length = (pre.length + SIZE_MOD - 1) % SIZE_MOD
            /\ bath.firstFree = (IF i < pre.firstFree THEN i ELSE pre.firstFree)
            /\ bath.size = pre.size /\ bath.itemSize = pre.itemSize
            /\ bath.data = pre.data

C9_Witness ==
    /\ call.op = "release" /\ Unaligned(pre, call.ptr)
    /\ bitArray_test(pre.useMap, (call.ptr - pre.data) \div pre.itemSize)
    /\ call.ok


\* C19: firstFree is the lowest indexed slot whose bit is clear, or is at
\* least size when every slot is taken.
C19_FirstFreeIsLowestFree ==
    LET free == {i \in Slots(bath) : ~bitArray_test(bath.useMap, i)}
    IN  IF free = {} THEN bath.firstFree >= bath.size
        ELSE bath.firstFree = Min(free)

\* C20: after membath_reset, as long as nothing is released, the calls of
\* membath_alloc return pairwise distinct slots and none fails before size
\* of them have succeeded.
C20_ResetGivesFreshBath ==
    fresh =>
        /\ \A p \in BagToSet(held) : CopiesIn(p, held) = 1
        /\ (call.op = "alloc" /\ call.ret = NULL) => BagCardinality(held) = bath.size

\* ---------------------------------------------------------- pool: claims
\* C3: every item the caller holds reads back the value the caller wrote
\* into it (checkData), whatever was allocated and released in between.
C3_ReadBack ==
    \A it \in items : \A a \in Bytes(it.ptr, pool.itemSize) : mem[a] = it.val

\* The baths of p whose buffer holds ptr.
Owners(p, ptr) == {i \in 1 .. p.length : InBuffer(p.baths[i], ptr)}
SlotOf(b, ptr) == (ptr - b.data) \div b.itemSize

\* C6: mempool_release of a pointer the caller holds returns pool, clears the
\* bit of its slot in the bath that owns it, takes one off that bath's length
\* and leaves the length and useMap of every other bath alone.
C6_ReleaseHeld ==
    call.op = "release" =>
        /\ call.ok
        /\ \A i \in 1 .. pre.length :
            IF i \in Owners(pre, call.ptr)
            THEN /\ ~bitArray_test(pool.baths[i].useMap,
                                   SlotOf(pre.baths[i], call.ptr))
                 /\ pool.baths[i].length = pre.baths[i].length - 1
            ELSE /\ pool.baths[i].length = pre.baths[i].length
                 /\ pool.baths[i].useMap = pre.baths[i].useMap

\* C7: mempool_release of an address that lies in no bath's buffer returns
\* NULL and leaves every bath as it was.
C7_ForeignRejected ==
    (call.op = "release" /\ Owners(pre, call.ptr) = {}) =>
        (~call.ok /\ pool = pre)

CeilDiv(n, k) == (n + k - 1) \div k

\* C10 as claimed: after n mempool_alloc calls and no release the pool has
\* ceil(n / bathSize) baths.
C10_BathsIsCeil ==
    nrel = 0 => pool.length = CeilDiv(nalloc, pool.bathSize)

\* C10 amended: after n >= 1 mempool_alloc calls and no release the pool has
\* ceil(n / bathSize) baths; before the first call it has the one bath that
\* mempool_init made.
C10_BathsIsCeilOrOne ==
    nrel = 0 =>
        pool.length = (IF nalloc = 0 THEN 1 ELSE CeilDiv(nalloc, pool.bathSize))

C10_Witness ==
    /\ nrel = 0 /\ pool.bathSize = 2 /\ nalloc = 5 /\ pool.length = 3

\* C11: on a fresh pool with no release, call number i (from 0) returns slot
\* i mod bathSize of bath i div bathSize, and that bath is appended during the
\* call exactly when i mod bathSize = 0 and i > 0.
C11_SequentialFill ==
    (call.op = "alloc" /\ nrel = 0) =>
        LET i == nalloc - 1
            k == pool.bathSize
            b == (i \div k) + 1
        IN  /\ b <= pool.length
            /\ call.ret = SlotAddr(pool.baths[b], i % k)
            /\ pool.length = (IF i % k = 0 /\ i > 0 THEN pre.length + 1 ELSE pre.length)
            /\ (i % k = 0 /\ i > 0) => b = pool.length

C11_Witness ==
    /\ call.op = "alloc" /\ nrel = 0 /\ nalloc = 3 /\ pool.bathSize = 2
    /\ pre.length = 1 /\ pool.length = 2
    /\ call.ret = SlotAddr(pool.baths[2], 0)

\* C12: after mempool_reset the pool has one bath, and that bath is empty: its
\* length and firstFree are 0 and the bit of every slot is clear.
C12_ResetLeavesOneEmptyBath ==
    call.op = "reset" =>
        /\ pool.length = 1
        /\ Len(pool.baths) = 1
        /\ pool.baths[1].length = 0
        /\ pool.baths[1].firstFree = 0
        /\ \A i \in 0 .. (pool.bathSize - 1) : ~bitArray_test(pool.baths[1].useMap, i)

\* --------------------------------------------------------- creek: claims
\* The bytes [ptr, ptr + sz) of a grant.
Range(g) == g.ptr .. (g.ptr + g.sz - 1)

\* C13: between two resets of a creek, the byte ranges of any two successful
\* memcreek_alloc calls do not overlap.
C13_CreekNoOverlap ==
    \A i, j \in 1 .. Len(grants) :
        i < j => Range(grants[i]) \cap Range(grants[j]) = {}

C13_Witness ==
    /\ Len(grants) = 2
    /\ creek.size = 2 /\ creek.length = creek.size
    /\ grants[1].sz = 1 /\ grants[2].sz = 1

\* --------------------------------------------------------- river: claims
\* C14: memriver_alloc(size) with size > creekSize appends exactly one creek,
\* of capacity size, serves the request from its offset 0, leaves it full and
\* leaves every creek there was before as it was.
C14_OversizedGetsOwnCreek ==
    (call.op = "alloc" /\ call.ptr > pre.creekSize) =>
        LET last == river.creeks[river.length]
        IN  /\ river.length = pre.length + 1
            /\ Len(river.creeks) = river.length
            /\ last.size = call.ptr
            /\ call.ret = last.data
            /\ last.length = last.size
            /\ \A i \in 1 .. pre.length : river.creeks[i] = pre.creeks[i]

C14_Witness ==
    /\ call.op = "alloc" /\ call.ptr > pre.creekSize
    /\ pre.length = 1 /\ river.length = 2
    /\ pre.creeks[1].length > 0
    /\ river.creeks[2].size = call.ptr

\* C15: no memriver_alloc call after an oversized one is served from the
\* creek made for the oversized request.
C15_OversizedCreekUnshared ==
    \A i, j \in 1 .. Len(grants) :
        (i < j /\ grants[i].over) => grants[j].creek # grants[i].creek

\* C15 as amended: no later call that asks for at least one byte is served
\* from the creek made for an oversized request.
C15_OversizedCreekUnsharedBytes ==
    \A i, j \in 1 .. Len(grants) :
        (i < j /\ grants[i].over /\ grants[j].sz >= 1) =>
            grants[j].creek # grants[i].creek

C15_Witness ==
    /\ Len(grants) >= 2
    /\ grants[1].over
    /\ grants[2].sz >= 1 /\ ~grants[2].over
    /\ grants[2].creek < grants[1].creek

\* ------------------------------------------------- pool and river: claims
\* The container the program made.
Container == IF pool.length > 0 THEN pool ELSE river

\* C16: every mempool_alloc and every memriver_alloc call returns a pointer,
\* having added at most one bath or creek, whatever the bath size, the creek
\* size and the size asked.
C16_AllocNeverNull ==
    call.op = "alloc" =>
        /\ call.ret # NULL
        /\ Container.length <= pre.length + 1

\* ----------------------------------------------- failing allocations: claims
\* C17: a make function (and the init function it calls) whose allocation
\* failed returns NULL, and none returns a container whose first member has
\* no buffer (call.ret is that buffer).
C17_MakeFailsOnOom ==
    call.op \in {"membath_make", "mempool_make", "memcreek_make", "memriver_make"} =>
        /\ oom # {} => ~call.ok
        /\ call.ok => call.ret # NULL

\* C18: a mempool_alloc or memriver_alloc call during which an allocation
\* failed returns NULL and leaves the container, its length and its members,
\* as it was before the call.
C18_FailedGrowthChangesNothing ==
    (call.op = "alloc" /\ oom # {}) =>
        /\ call.ret = NULL
        /\ Container = pre

\* ---------------------------------------------------- pool: claims, continued
\* Whether ptr is the address of a slot of bath b.
IsSlotOf(b, ptr) == \E i \in Slots(b) : ptr = SlotAddr(b, i)

\* Whether every slot of bath b is taken.
AllTaken(b) == \A i \in Slots(b) : bitArray_test(b.useMap, i)

\* C21: mempool_alloc takes a slot of the last bath only: a pointer it returns
\* is a slot of the bath that is last after the call and of no other bath,
\* the baths that were not last before the call are left as they were, and
\* when the last bath is full (every slot taken, or length >= size) a bath is
\* appended, free slots in earlier baths or not.
C21_AllocFromLastOnly ==
    call.op = "alloc" =>
        /\ call.ret # NULL =>
            /\ IsSlotOf(pool.baths[pool.length], call.ret)
            /\ \A i \in 1 .. (pool.length - 1) : ~IsSlotOf(pool.baths[i], call.ret)
        /\ \A i \in 1 .. (pre.length - 1) : pool.baths[i] = pre.baths[i]
        /\ (AllTaken(pre.baths[pre.length]) \/ LastFull(pre)) =>
            /\ pool.length = pre.length + 1
            /\ pool.baths[pre.length] = pre.baths[pre.length]

C21_Witness ==
    /\ call.op = "alloc" /\ call.ret # NULL
    /\ pre.length = 2 /\ pool.length = 3
    /\ ~AllTaken(pre.baths[1])
    /\ AllTaken(pre.baths[2])
    /\ IsSlotOf(pool.baths[3], call.ret)

\* --------------------------------------------------- river: claims, continued
\* The room left in creek c.
Room(c) == c.size - c.length

\* C22: memriver_alloc(size) with size <= creekSize is served from the
\* highest-indexed creek whose room is at least size, at that creek's length;
\* when no creek has that room, and only then, one creek of capacity creekSize
\* is appended and the request is served from its start.
C22_ServedFromLastWithRoom ==
    (call.op = "alloc" /\ call.ptr <= pre.creekSize) =>
        LET size == call.ptr
            fit == {i \in 1 .. pre.length : Room(pre.creeks[i]) >= size}
            served == grants[Len(grants)].creek
        IN  /\ call.ret # NULL
            /\ IF fit # {}
               THEN /\ river.length = pre.length
                    /\ served = Max(fit)
                    /\ call.ret = pre.creeks[served].data + pre.creeks[served].length
               ELSE /\ river.length = pre.length + 1
                    /\ served = river.length
                    /\ river.creeks[served].size = pre.creekSize
                    /\ call.ret = river.creeks[served].data
            /\ river.creeks[served].length =
                   (IF fit # {} THEN pre.creeks[served].length ELSE 0) + size
            /\ \A i \in 1 .. pre.length : i # served => river.creeks[i] = pre.creeks[i]

C22_Witness ==
    /\ call.op = "alloc" /\ call.ptr <= pre.creekSize /\ call.ptr >= 1
    /\ pre.length = 2
    /\ Room(pre.creeks[1]) >= call.ptr
    /\ Room(pre.creeks[2]) >= call.ptr
    /\ grants[Len(grants)].creek = 2
    /\ river.length = 2

\* --------------------------------------------------- creek: claims, continued
\* C23: memcreek_alloc(sz) returns NULL exactly when size - length < sz, and
\* then leaves the creek as it was; otherwise it returns the address at offset
\* length (the length before the call) and adds sz to length.
C23_CreekAllocContract ==
    call.op = "alloc" =>
        LET sz == call.ptr
        IN  IF pre.size - pre.length < sz
            THEN call.ret = NULL /\ creek = pre
            ELSE /\ call.ret # NULL
                 /\ call.ret - creek.data = pre.length
                 /\ creek.length = pre.length + sz
                 /\ creek.size = pre.size /\ creek.data = pre.data

C23_Witness ==
    /\ call.op = "alloc" /\ call.ret = NULL
    /\ pre.length > 0 /\ pre.length < pre.size
    /\ call.ptr = pre.size - pre.length + 1

\* ------------------------------------------------- creek and river: claims
\* C24: the length of a creek, on its own or in a river, is between 0 and its
\* size; the first creek of a river has size creekSize, and every other creek
\* has size creekSize or a greater size, that of the oversized request it was
\* made for.
C24_CreekInvariants ==
    /\ 0 <= creek.length /\ creek.length <= creek.size
    /\ \A i \in 1 .. Len(river.creeks) :
        LET c == river.creeks[i]
        IN  /\ 0 <= c.length /\ c.length <= c.size
            /\ c.size >= river.creekSize
            /\ i = 1 => c.size = river.creekSize
            /\ c.size > river.creekSize =>
                   \E j \in 1 .. Len(grants) :
                       /\ grants[j].creek = i /\ grants[j].over
                       /\ grants[j].sz = c.size

C24_Witness ==
    /\ river.length = 2
    /\ river.creeks[2].size > river.creekSize
    /\ river.creeks[2].length = river.creeks[2].size
    /\ river.creeks[1].length = river.creeks[1].size
    /\ river.creeks[1].size > 0
    /\ Len(grants) = MaxGrants

====
